---- MODULE Spec2Model ----
(***************************************************************************)
(* A model of package encoding (encoding.go): the array literal parser     *)
(* parseArray with its entry point ScanLinearArray, the composite literal  *)
(* splitter SplitBytes with its byte scanner, and the quoted element       *)
(* encoder AppendArrayQuotedBytes.                                         *)
(*                                                                         *)
(* Bytes are their ASCII codes.  A Go slice is a record [nil, data]: the   *)
(* code distinguishes the nil slice (SQL NULL, "no result") from an empty  *)
(* one.  Offsets (i, r) are 0-based as in the code; the byte at offset k   *)
(* of s is s[k + 1].                                                       *)
(***************************************************************************)
EXTENDS Integers, Sequences, FiniteSets, TLC

VARIABLES
    input,    \* how the literal under test was drawn (kind and parameters)
    src,      \* the literal bytes handed to the call
    del,      \* parseArray: the delimiter token
    typ,      \* ScanLinearArray: the target type name
    pc,       \* position of the call in the code
    depth,    \* parseArray / SplitBytes: nesting depth
    i,        \* parseArray: scan offset into src
    dims,     \* parseArray: dimension vector (named result)
    elems,    \* parseArray: flattened elements (named result)
    err,      \* parseArray: named error result; SplitBytes: err of the last r.Next()
    ret,      \* what the exported function returned: [val, err]
    r,        \* SplitBytes: read offset of the scanner into src[1:]
    chunks,   \* SplitBytes: completed fields
    elem,     \* SplitBytes: field being built
    prev,     \* SplitBytes: previous byte
    quoted    \* SplitBytes: inside a quoted region

vars == <<input, src, del, typ, pc, depth, i, dims, elems, err, ret,
          r, chunks, elem, prev, quoted>>

arrayVars == <<del, typ, i, dims, elems>>
splitVars == <<r, chunks, elem, prev, quoted>>

----------------------------------------------------------------------------
(* Bytes                                                                   *)

LBrace == 123
RBrace == 125
LParen == 40
RParen == 41
Comma == 44
DQuote == 34
Backslash == 92
Space == 32
LowerA == 97
LowerB == 98
Digit0 == 48
NulByte == 0

NULLBytes == <<78, 85, 76, 76>>
LowerNull == <<110, 117, 108, 108>>

----------------------------------------------------------------------------
(* Bounds of the model                                                     *)

MaxLen == 4       \* longest literal of the "any bytes" input class
MaxVLen == 3      \* longest value handed to the encoder
MaxDepth == 3     \* deepest generated rectangular array
MaxDim == 2       \* largest size of one level of a generated rectangular array
MaxRows == 3      \* most rows of a generated two-level array
MaxRow == 3       \* longest row of a generated two-level array
MaxToks == 3      \* most elements / fields of a generated token list
MaxSpin == 2      \* iterations of SplitBytes followed after end of input
MaxBLen == 2      \* longest buffer handed to the encoder
MaxTail == 2      \* most bytes after the closing ')' of a generated composite literal
MaxTailToks == 2  \* most fields of a generated composite literal with such bytes

----------------------------------------------------------------------------
(* Go values                                                               *)

Nil == [nil |-> TRUE, data |-> <<>>]
Mk(s) == [nil |-> FALSE, data |-> s]
GoAppend(sl, x) == Mk(Append(sl.data, x))
GoLen(sl) == Len(sl.data)

Err(kind, byte, off) == [kind |-> kind, byte |-> byte, off |-> off]
NoErr == Err("nil", 0, 0)
EOF == Err("EOF", 0, 0)
Expected(b, off) == Err("expected", b, off)
Unexpected(b, off) == Err("unexpected", b, off)
Mismatch == Err("mismatch", 0, 0)
CannotConvert(d, t) == [kind |-> "cannot convert", shape |-> d, typ |-> t]

SeqsUpTo(S, n) == UNION {[1..k -> S] : k \in 0..n}

Slice(s, from, to) == [k \in 1..(to - from) |-> s[from + k]]

HasPrefix(s, at, p) ==
    /\ at + Len(p) <= Len(s)
    /\ \A k \in 1..Len(p) : s[at + k] = p[k]

RECURSIVE Concat(_)
Concat(ss) == IF ss = <<>> THEN <<>> ELSE Head(ss) \o Concat(Tail(ss))

RECURSIVE Join(_, _)
Join(ss, sep) ==
    IF ss = <<>> THEN <<>>
    ELSE IF Len(ss) = 1 THEN ss[1]
    ELSE ss[1] \o sep \o Join(Tail(ss), sep)

RECURSIVE Product(_)
Product(s) == IF s = <<>> THEN 1 ELSE Head(s) * Product(Tail(s))

----------------------------------------------------------------------------
(* AppendArrayQuotedBytes                                                  *)

\* as IndexAny, looking for '"' only
IndexAny_QuoteOnly(v) ==
    IF \E k \in 1..Len(v) : v[k] = DQuote
    THEN (CHOOSE k \in 1..Len(v) :
              /\ v[k] = DQuote
              /\ \A m \in 1..(k - 1) : v[m] # DQuote) - 1
    ELSE -1

\* bytes.IndexAny(v, `"\`): 0-based offset of the first such byte, or -1
IndexAny(v) ==
    IF \E k \in 1..Len(v) : v[k] \in {DQuote, Backslash}
    THEN (CHOOSE k \in 1..Len(v) :
              /\ v[k] \in {DQuote, Backslash}
              /\ \A m \in 1..(k - 1) : v[m] \notin {DQuote, Backslash}) - 1
    ELSE -1

\* as QuoteLoop, forgetting the bytes in front of an escaped byte
RECURSIVE QuoteLoop_DropPrefix(_, _)
QuoteLoop_DropPrefix(b, v) ==
    LET at == IndexAny(v) IN
    IF at < 0 THEN b \o v
    ELSE QuoteLoop_DropPrefix(b \o <<Backslash, v[at + 1]>>,
                              Slice(v, at + 1, Len(v)))

RECURSIVE QuoteLoop(_, _)
QuoteLoop(b, v) ==
    LET at == IndexAny(v) IN
    IF at < 0 THEN b \o v
    ELSE QuoteLoop(b \o Slice(v, 0, at) \o <<Backslash, v[at + 1]>>,
                   Slice(v, at + 1, Len(v)))

AppendArrayQuotedBytes(b, v) == QuoteLoop(b \o <<DQuote>>, v) \o <<DQuote>>

----------------------------------------------------------------------------
(* The literals the array parser is run on                                 *)

ArrayAlphabet == {LBrace, RBrace, Comma, DQuote, Backslash, LowerA}
ValueAlphabet == {DQuote, Backslash, Comma, LBrace, RBrace, LowerA}
Dels == {<<Comma>>, <<>>, <<Comma, Comma>>}
Types == {"int4"}

Input(kind, arg) == [kind |-> kind, arg |-> arg]

\* the m-th leaf of a generated array: two bytes, a0, a1, ...
Leaf(m) == <<LowerA + (m \div 10), Digit0 + (m % 10)>>
LeafText(m, style) ==
    IF style = "quoted" THEN <<DQuote>> \o Leaf(m) \o <<DQuote>> ELSE Leaf(m)

Stride(shape, k) == Product(SubSeq(shape, k + 1, Len(shape)))

\* the literal of a rectangular array of the given shape, leaves numbered in
\* row-major order from base
RECURSIVE RectLit(_, _, _, _)
RectLit(shape, k, base, style) ==
    IF k > Len(shape) THEN LeafText(base, style)
    ELSE IF shape[k] = 0 THEN <<LBrace, RBrace>>
    ELSE <<LBrace>>
         \o Join([j \in 1..shape[k] |->
                    RectLit(shape, k + 1, base + (j - 1) * Stride(shape, k), style)],
                 <<Comma>>)
         \o <<RBrace>>

\* the literal of a two-level array whose j-th row has rows[j] leaves
RowLit(j, n) == <<LBrace>> \o Join([m \in 1..n |-> Leaf(10 * j + m)], <<Comma>>) \o <<RBrace>>
RowsLit(rows) ==
    <<LBrace>> \o Join([j \in 1..Len(rows) |-> RowLit(j, rows[j])], <<Comma>>) \o <<RBrace>>

\* one element as written in a literal: quoted or not, its text, and the
\* value the text stands for
Tok(q, text, value) == [quoted |-> q, text |-> text, value |-> value]
\* a quoted element spelling a"b with a doubled quote, and with a backslash
DoubledTok == Tok(TRUE, <<LowerA, DQuote, DQuote, LowerB>>, <<LowerA, DQuote, LowerB>>)
EscapedTok == Tok(TRUE, <<LowerA, Backslash, DQuote, LowerB>>, <<LowerA, DQuote, LowerB>>)

ArrayToks ==
    { Tok(FALSE, NULLBytes, NULLBytes),
      Tok(FALSE, LowerNull, LowerNull),
      Tok(FALSE, <<Space>> \o NULLBytes, <<Space>> \o NULLBytes),
      Tok(FALSE, <<LowerA>>, <<LowerA>>),
      Tok(TRUE, NULLBytes, NULLBytes),
      Tok(TRUE, <<>>, <<>>),
      EscapedTok,
      DoubledTok }
TokText(t) == IF t.quoted THEN <<DQuote>> \o t.text \o <<DQuote>> ELSE t.text
ToksLit(toks) ==
    <<LBrace>> \o Join([k \in 1..Len(toks) |-> TokText(toks[k])], <<Comma>>) \o <<RBrace>>

\* level sizes, outermost first; only the innermost level may be empty
Shapes ==
    {sh \in UNION {[1..n -> 0..MaxDim] : n \in 1..MaxDepth} :
        \A k \in 1..(Len(sh) - 1) : sh[k] >= 1}
RowLists == UNION {[1..n -> 1..MaxRow] : n \in 2..MaxRows}
TokLists == UNION {[1..n -> ArrayToks] : n \in 1..MaxToks}

ArrayCases ==
    {Input("bytes", s) : s \in SeqsUpTo(ArrayAlphabet, MaxLen)}
    \cup {Input("quoted", v) : v \in SeqsUpTo(ValueAlphabet, MaxVLen) \cup {NULLBytes}}
    \cup {Input("rect", [shape |-> sh, style |-> st]) :
              sh \in Shapes, st \in {"unquoted", "quoted"}}
    \cup {Input("rows", rs) : rs \in RowLists}
    \cup {Input("tokens", ts) : ts \in TokLists}

ArraySrc(c) ==
    CASE c.kind = "bytes" -> c.arg
      [] c.kind = "quoted" ->
            <<LBrace>> \o AppendArrayQuotedBytes(<<>>, c.arg) \o <<RBrace>>
      [] c.kind = "rect" -> RectLit(c.arg.shape, 1, 0, c.arg.style)
      [] c.kind = "rows" -> RowsLit(c.arg)
      [] c.kind = "tokens" -> ToksLit(c.arg)

Pending == [val |-> Nil, err |-> NoErr]

InitArray ==
    /\ \E c \in ArrayCases, d \in Dels :
          /\ c.kind # "bytes" => d = <<Comma>>
          /\ input = c
          /\ src = ArraySrc(c)
          /\ del = d
    /\ typ \in Types
    /\ pc = "ScanLinearArray"
    /\ depth = 0 /\ i = 0
    /\ dims = Nil /\ elems = Nil /\ err = NoErr
    /\ ret = Pending
    /\ r = 0 /\ chunks = Nil /\ elem = Nil /\ prev = NulByte /\ quoted = FALSE

----------------------------------------------------------------------------
(* parseArray                                                              *)

AtEnd == i >= Len(src)
Cur == src[i + 1]

\* as ReturnError, returning the named results as they are
ReturnError_Named(e) ==
    /\ err' = e
    /\ pc' = "returned"
    /\ UNCHANGED <<dims, elems>>

\* return nil, nil, e
ReturnError(e) ==
    /\ dims' = Nil /\ elems' = Nil /\ err' = e
    /\ pc' = "returned"

\* as ParseArrayEntry, without the check of the opening brace
ParseArrayEntry_NoCheck ==
    /\ pc = "ScanLinearArray"
    /\ pc' = "Open"
    /\ UNCHANGED <<input, src, del, typ, depth, i, dims, elems, err, ret, splitVars>>

\* ScanLinearArray calls parseArray; parseArray checks the opening brace
ParseArrayEntry ==
    /\ pc = "ScanLinearArray"
    /\ IF Len(src) < 1 \/ src[1] # LBrace
       THEN ReturnError(Expected(LBrace, 0))
       ELSE pc' = "Open" /\ UNCHANGED <<dims, elems, err>>
    /\ UNCHANGED <<input, src, del, typ, depth, i, ret, splitVars>>

\* Open: one more leading '{'
OpenBrace ==
    /\ pc = "Open" /\ ~AtEnd /\ Cur = LBrace
    /\ depth' = depth + 1
    /\ i' = i + 1
    /\ UNCHANGED <<input, src, del, typ, pc, dims, elems, err, ret, splitVars>>

\* Open: '}' right after the leading run: the empty array, goto Close
OpenEmpty ==
    /\ pc = "Open" /\ ~AtEnd /\ Cur = RBrace
    /\ elems' = Mk(<<>>)
    /\ pc' = "Close"
    /\ UNCHANGED <<input, src, del, typ, depth, i, dims, err, ret, splitVars>>

\* Open ends (another byte, or end of input): dims = make([]int, i)
OpenDone ==
    /\ pc = "Open" /\ (IF AtEnd THEN TRUE ELSE Cur \notin {LBrace, RBrace})
    /\ dims' = Mk([k \in 1..i |-> 0])
    /\ pc' = "Element"
    /\ UNCHANGED <<input, src, del, typ, depth, i, elems, err, ret, splitVars>>

\* whether dims[d-1] is inside the slice
InRange(d) == 1 <= d /\ d <= GoLen(dims)

\* as ResetDim, leaving the count of the previous sub-array in place
ResetDim_Keep(d, k) == d

\* dims[k-1] = 0
ResetDim(d, k) == Mk([d.data EXCEPT ![k] = 0])

\* Element: '{' opens a nested array: depth++; dims[depth-1] = 0; i++
ElementBrace ==
    /\ pc = "Element" /\ ~AtEnd /\ Cur = LBrace
    /\ depth' = depth + 1
    /\ IF InRange(depth + 1)
       THEN /\ dims' = ResetDim(dims, depth + 1)
            /\ i' = i + 1
            /\ pc' = pc
       ELSE /\ pc' = "panic"
            /\ UNCHANGED <<dims, i>>
    /\ UNCHANGED <<input, src, del, typ, elems, err, ret, splitVars>>

\* as ScanQuoted, with two consecutive '"' read as one literal '"'
RECURSIVE ScanQuoted_Doubled(_, _, _, _)
ScanQuoted_Doubled(s, j, e, escape) ==
    IF j >= Len(s) THEN [closed |-> FALSE, i |-> j, elem |-> e]
    ELSE IF escape THEN ScanQuoted_Doubled(s, j + 1, Append(e, s[j + 1]), FALSE)
    ELSE IF s[j + 1] = Backslash THEN ScanQuoted_Doubled(s, j + 1, e, TRUE)
    ELSE IF s[j + 1] = DQuote /\ j + 1 < Len(s) /\ s[j + 2] = DQuote
         THEN ScanQuoted_Doubled(s, j + 2, Append(e, DQuote), FALSE)
    ELSE IF s[j + 1] = DQuote THEN [closed |-> TRUE, i |-> j + 1, elem |-> e]
    ELSE ScanQuoted_Doubled(s, j + 1, Append(e, s[j + 1]), FALSE)

\* the inner loop of a quoted element, from offset j with elem e
RECURSIVE ScanQuoted(_, _, _, _)
ScanQuoted(s, j, e, escape) ==
    IF j >= Len(s) THEN [closed |-> FALSE, i |-> j, elem |-> e]
    ELSE IF escape THEN ScanQuoted(s, j + 1, Append(e, s[j + 1]), FALSE)
    ELSE IF s[j + 1] = Backslash THEN ScanQuoted(s, j + 1, e, TRUE)
    ELSE IF s[j + 1] = DQuote THEN [closed |-> TRUE, i |-> j + 1, elem |-> e]
    ELSE ScanQuoted(s, j + 1, Append(e, s[j + 1]), FALSE)

\* Element: '"' opens a quoted element
ElementQuoted ==
    /\ pc = "Element" /\ ~AtEnd /\ Cur = DQuote
    /\ LET q == ScanQuoted(src, i + 1, <<>>, FALSE) IN
          /\ i' = q.i
          /\ IF q.closed
             THEN elems' = GoAppend(elems, Mk(q.elem)) /\ pc' = "Delim"
             ELSE UNCHANGED <<elems, pc>>
    /\ UNCHANGED <<input, src, del, typ, depth, dims, err, ret, splitVars>>

\* offset of the first delimiter or '}' at or after offset j, Len(s) if none
RECURSIVE ScanUnquoted(_, _, _)
ScanUnquoted(s, j, d) ==
    IF j >= Len(s) THEN j
    ELSE IF HasPrefix(s, j, d) \/ s[j + 1] = RBrace THEN j
    ELSE ScanUnquoted(s, j + 1, d)

\* as IsNULL, ignoring case
IsNULL_AnyCase(e) == e \in {NULLBytes, LowerNull}

\* bytes.Equal(elem, []byte("NULL"))
IsNULL(e) == e = NULLBytes

\* Element: any other byte starts an unquoted element
ElementUnquoted ==
    /\ pc = "Element" /\ ~AtEnd /\ Cur \notin {LBrace, DQuote}
    /\ LET j == ScanUnquoted(src, i, del)
           e == Slice(src, i, j)
       IN  IF j >= Len(src)
           THEN i' = j /\ UNCHANGED <<dims, elems, err, pc>>
           ELSE IF Len(e) = 0
           THEN ReturnError(Unexpected(src[j + 1], j)) /\ i' = j
           ELSE /\ elems' = GoAppend(elems, IF IsNULL(e) THEN Nil ELSE Mk(e))
                /\ i' = j
                /\ pc' = "Delim"
                /\ UNCHANGED <<dims, err>>
    /\ UNCHANGED <<input, src, del, typ, depth, ret, splitVars>>

\* Element: end of input leaves the loop
ElementEnd ==
    /\ pc = "Element" /\ AtEnd
    /\ pc' = "Delim"
    /\ UNCHANGED <<input, src, del, typ, depth, i, dims, elems, err, ret, splitVars>>

\* as IncDim, without the increment
IncDim_Skip(d, k) == d

\* dims[k-1]++
IncDim(d, k) == Mk([d.data EXCEPT ![k] = @ + 1])

\* as DelimDelimiter, leaving the scan offset on the delimiter
DelimDelimiter_NoAdvance ==
    /\ pc = "Delim" /\ ~AtEnd /\ HasPrefix(src, i, del)
    /\ IF InRange(depth)
       THEN /\ dims' = IncDim(dims, depth)
            /\ pc' = "Element"
       ELSE /\ pc' = "panic"
            /\ UNCHANGED dims
    /\ UNCHANGED <<input, src, del, typ, depth, i, elems, err, ret, splitVars>>

\* Delimiter-or-close: the delimiter: dims[depth-1]++; goto Element
DelimDelimiter ==
    /\ pc = "Delim" /\ ~AtEnd /\ HasPrefix(src, i, del)
    /\ IF InRange(depth)
       THEN /\ dims' = IncDim(dims, depth)
            /\ i' = i + Len(del)
            /\ pc' = "Element"
       ELSE /\ pc' = "panic"
            /\ UNCHANGED <<dims, i>>
    /\ UNCHANGED <<input, src, del, typ, depth, elems, err, ret, splitVars>>

\* Delimiter-or-close: '}': dims[depth-1]++; depth--; i++
DelimClose ==
    /\ pc = "Delim" /\ ~AtEnd /\ ~HasPrefix(src, i, del) /\ Cur = RBrace
    /\ IF InRange(depth)
       THEN /\ dims' = IncDim(dims, depth)
            /\ depth' = depth - 1
            /\ i' = i + 1
            /\ pc' = pc
       ELSE /\ pc' = "panic"
            /\ UNCHANGED <<dims, depth, i>>
    /\ UNCHANGED <<input, src, del, typ, elems, err, ret, splitVars>>

\* Delimiter-or-close: any other byte is an error
DelimUnexpected ==
    /\ pc = "Delim" /\ ~AtEnd /\ ~HasPrefix(src, i, del) /\ Cur # RBrace
    /\ ReturnError(Unexpected(Cur, i))
    /\ UNCHANGED <<input, src, del, typ, depth, i, ret, splitVars>>

\* Delimiter-or-close: end of input leaves the loop
DelimEnd ==
    /\ pc = "Delim" /\ AtEnd
    /\ pc' = "Close"
    /\ UNCHANGED <<input, src, del, typ, depth, i, dims, elems, err, ret, splitVars>>

\* Close: a '}' that balances the leading run
CloseBrace ==
    /\ pc = "Close" /\ ~AtEnd /\ Cur = RBrace /\ depth > 0
    /\ depth' = depth - 1
    /\ i' = i + 1
    /\ UNCHANGED <<input, src, del, typ, pc, dims, elems, err, ret, splitVars>>

\* Close: anything else is an error
CloseUnexpected ==
    /\ pc = "Close" /\ ~AtEnd /\ ~(Cur = RBrace /\ depth > 0)
    /\ ReturnError(Unexpected(Cur, i))
    /\ UNCHANGED <<input, src, del, typ, depth, i, ret, splitVars>>

\* as Ragged, testing the outermost dimension only
Ragged_Outermost(d, n) == GoLen(d) > 0 /\ n % d.data[1] # 0

\* len(elems) % d != 0 for some d of dims
Ragged(d, n) == \E k \in 1..GoLen(d) : n % d.data[k] # 0

\* as CloseEnd, without the balance check
CloseEnd_NoBalance ==
    /\ pc = "Close" /\ AtEnd
    /\ IF \E k \in 1..GoLen(dims) : dims.data[k] = 0
       THEN pc' = "panic" /\ UNCHANGED err
       ELSE /\ err' = IF Ragged(dims, GoLen(elems)) THEN Mismatch ELSE NoErr
            /\ pc' = "returned"
    /\ UNCHANGED <<input, src, del, typ, depth, i, dims, elems, ret, splitVars>>

\* end of input: the balance check, then the rectangularity check
CloseEnd ==
    /\ pc = "Close" /\ AtEnd
    /\ IF depth > 0
       THEN err' = Expected(RBrace, i) /\ pc' = "returned"
       ELSE IF \E k \in 1..GoLen(dims) : dims.data[k] = 0
       THEN pc' = "panic" /\ UNCHANGED err
       ELSE /\ err' = IF Ragged(dims, GoLen(elems)) THEN Mismatch ELSE NoErr
            /\ pc' = "returned"
    /\ UNCHANGED <<input, src, del, typ, depth, i, dims, elems, ret, splitVars>>

----------------------------------------------------------------------------
(* ScanLinearArray                                                         *)

\* as LinearResult, handing the elements back together with the error
LinearResult_Partial(d, e, er, t) ==
    IF er # NoErr THEN [val |-> e, err |-> er]
    ELSE IF GoLen(d) > 1 THEN [val |-> e, err |-> CannotConvert(d.data, t)]
    ELSE [val |-> e, err |-> er]

\* the body of ScanLinearArray after the call of parseArray
LinearResult(d, e, er, t) ==
    IF er # NoErr THEN [val |-> Nil, err |-> er]
    ELSE IF GoLen(d) > 1 THEN [val |-> Nil, err |-> CannotConvert(d.data, t)]
    ELSE [val |-> e, err |-> er]

ScanLinearArrayReturn ==
    /\ pc = "returned"
    /\ ret' = LinearResult(dims, elems, err, typ)
    /\ pc' = "done"
    /\ UNCHANGED <<input, src, del, typ, depth, i, dims, elems, err, splitVars>>

NextArray ==
    \/ ParseArrayEntry
    \/ OpenBrace \/ OpenEmpty \/ OpenDone
    \/ ElementBrace \/ ElementQuoted \/ ElementUnquoted \/ ElementEnd
    \/ DelimDelimiter \/ DelimClose \/ DelimUnexpected \/ DelimEnd
    \/ CloseBrace \/ CloseUnexpected \/ CloseEnd
    \/ ScanLinearArrayReturn

SpecArray == InitArray /\ [][NextArray]_vars

\* a call that has not returned goes on running
SpecArrayFair == SpecArray /\ WF_vars(NextArray)

----------------------------------------------------------------------------
(* The literals the composite splitter is run on                           *)

SplitAlphabet == {LParen, RParen, Comma, DQuote, Backslash, LowerA}

\* fields without escapes: a ',' or ')' only inside quotes
PlainToks ==
    { Tok(FALSE, <<>>, <<>>),
      Tok(FALSE, <<LowerA>>, <<LowerA>>),
      Tok(FALSE, <<LowerB, LParen>>, <<LowerB, LParen>>),
      Tok(TRUE, <<LowerA>>, <<LowerA>>),
      Tok(TRUE, <<LowerA, Comma, LowerB>>, <<LowerA, Comma, LowerB>>),
      Tok(TRUE, <<RParen>>, <<RParen>>) }
\* fields with an escape inside quotes
EscapeToks ==
    { EscapedTok,
      DoubledTok,
      Tok(TRUE, <<LowerA, Backslash, LowerB>>, <<LowerA, LowerB>>) }
FieldLists == UNION {[1..n -> PlainToks \cup EscapeToks] : n \in 1..MaxToks}

FieldsLit(toks) ==
    <<LParen>> \o Join([k \in 1..Len(toks) |-> TokText(toks[k])], <<Comma>>) \o <<RParen>>

\* a literal of fields without escapes, followed by further bytes
TrailingCases ==
    {Input("trailing", [toks |-> ts, tail |-> s]) :
        ts \in UNION {[1..n -> PlainToks] : n \in 1..MaxTailToks},
        s \in SeqsUpTo(SplitAlphabet, MaxTail) \ {<<>>}}

SplitCases ==
    {Input("composite", s) : s \in SeqsUpTo(SplitAlphabet, MaxLen)}
    \cup {Input("fields", ts) : ts \in FieldLists}
    \cup TrailingCases

SplitSrc(c) ==
    CASE c.kind = "composite" -> c.arg
      [] c.kind = "fields" -> FieldsLit(c.arg)
      [] c.kind = "trailing" -> FieldsLit(c.arg.toks) \o c.arg.tail

InitSplit ==
    /\ \E c \in SplitCases : input = c /\ src = SplitSrc(c)
    /\ pc = "SplitBytes"
    /\ depth = 0
    /\ r = 0 /\ chunks = Nil /\ elem = Nil /\ prev = NulByte /\ quoted = FALSE
    /\ err = NoErr
    /\ ret = Pending
    /\ del = <<>> /\ typ = "" /\ i = 0 /\ dims = Nil /\ elems = Nil

----------------------------------------------------------------------------
(* scanner                                                                 *)

\* the bytes the scanner reads: src[1:]
Rest == Tail(src)

\* scanner.Next from offset at: the byte, the error and the new offset
ScannerNext(s, at) ==
    IF at < Len(s) THEN [b |-> s[at + 1], err |-> NoErr, r |-> at + 1]
    ELSE [b |-> NulByte, err |-> EOF, r |-> at]

\* scanner.Peek from offset at: ReadByte, then Seek(-1, current); the error
\* it returns is the one of Seek.  A negative offset makes Seek fail (panic).
ScannerPeek(s, at) ==
    LET rd == ScannerNext(s, at) IN
    [b |-> rd.b, err |-> NoErr, r |-> rd.r - 1]

----------------------------------------------------------------------------
(* SplitBytes                                                              *)

SplitEntry ==
    /\ pc = "SplitBytes"
    /\ IF Len(src) < 1 \/ src[1] # LParen
       THEN /\ ret' = [val |-> Nil, err |-> Expected(LParen, 0)]
            /\ pc' = "done"
            /\ UNCHANGED <<depth, chunks>>
       ELSE /\ depth' = 1
            /\ chunks' = Mk(<<>>)
            /\ pc' = "scan"
            /\ UNCHANGED ret
    /\ UNCHANGED <<input, src, err, r, elem, prev, quoted, arrayVars>>

\* depth == 0: break, return chunks, nil
SplitReturn ==
    /\ pc = "scan" /\ depth = 0
    /\ ret' = [val |-> chunks, err |-> NoErr]
    /\ pc' = "done"
    /\ UNCHANGED <<input, src, depth, err, splitVars, arrayVars>>

\* the byte the next iteration reads
NextRead == ScannerNext(Rest, r)

\* case ')'
SplitParen ==
    /\ pc = "scan" /\ depth # 0
    /\ NextRead.err = NoErr /\ NextRead.b = RParen
    /\ IF ~quoted
       THEN /\ depth' = depth - 1
            /\ chunks' = GoAppend(chunks, elem)
            /\ UNCHANGED elem
       ELSE /\ elem' = GoAppend(elem, RParen)
            /\ UNCHANGED <<depth, chunks>>
    /\ r' = NextRead.r /\ err' = NextRead.err /\ prev' = RParen
    /\ UNCHANGED <<input, src, pc, ret, quoted, arrayVars>>

\* as Toggles, without the look back at the previous byte
Toggles_NoLookBack(p) == TRUE

\* a '"' that is not the first of a pair opens or closes a quoted region
\* unless the previous byte was a backslash
Toggles(p) == p # Backslash

\* case '"'
SplitQuote ==
    /\ pc = "scan" /\ depth # 0
    /\ NextRead.err = NoErr /\ NextRead.b = DQuote
    /\ LET pk == ScannerPeek(Rest, NextRead.r) IN
          IF pk.r < 0
          THEN pc' = "panic" /\ r' = NextRead.r /\ UNCHANGED <<elem, quoted>>
          ELSE IF pk.b = DQuote
          THEN /\ elem' = GoAppend(elem, DQuote)
               /\ r' = ScannerNext(Rest, pk.r).r
               /\ UNCHANGED <<quoted, pc>>
          ELSE IF Toggles(prev)
          THEN /\ quoted' = ~quoted
               /\ r' = pk.r
               /\ UNCHANGED <<elem, pc>>
          ELSE /\ elem' = GoAppend(elem, DQuote)
               /\ r' = pk.r
               /\ UNCHANGED <<quoted, pc>>
    /\ err' = NextRead.err /\ prev' = DQuote
    /\ UNCHANGED <<input, src, depth, ret, chunks, arrayVars>>

\* as Splits, whatever the quoted flag
Splits_Quoted(q) == TRUE

\* a ',' ends the field when it is outside a quoted region
Splits(q) == ~q

\* case ','
SplitComma ==
    /\ pc = "scan" /\ depth # 0
    /\ NextRead.err = NoErr /\ NextRead.b = Comma
    /\ IF Splits(quoted)
       THEN /\ chunks' = GoAppend(chunks, elem)
            /\ elem' = Mk(<<>>)
       ELSE /\ elem' = GoAppend(elem, Comma)
            /\ UNCHANGED chunks
    /\ r' = NextRead.r /\ err' = NextRead.err /\ prev' = Comma
    /\ UNCHANGED <<input, src, pc, depth, ret, quoted, arrayVars>>

\* as SplitByte, with '(' opening a nested level
SplitByte_Nested ==
    /\ pc = "scan" /\ depth # 0
    /\ NextRead.err = NoErr /\ NextRead.b \notin {RParen, DQuote, Comma}
    /\ elem' = GoAppend(elem, NextRead.b)
    /\ depth' = IF NextRead.b = LParen THEN depth + 1 ELSE depth
    /\ r' = NextRead.r /\ err' = NextRead.err /\ prev' = NextRead.b
    /\ UNCHANGED <<input, src, pc, ret, chunks, quoted, arrayVars>>

\* default: any other byte is appended
SplitByte ==
    /\ pc = "scan" /\ depth # 0
    /\ NextRead.err = NoErr /\ NextRead.b \notin {RParen, DQuote, Comma}
    /\ elem' = GoAppend(elem, NextRead.b)
    /\ r' = NextRead.r /\ err' = NextRead.err /\ prev' = NextRead.b
    /\ UNCHANGED <<input, src, pc, depth, ret, chunks, quoted, arrayVars>>

\* r.Next() at end of input: err is io.EOF, which the loop lets pass, and b
\* is the zero byte, which the default case appends.  The model follows the
\* loop for MaxSpin such iterations.
SplitEOF ==
    /\ pc = "scan" /\ depth # 0
    /\ NextRead.err = EOF
    /\ GoLen(elem) < Len(src) + MaxSpin
    /\ elem' = GoAppend(elem, NextRead.b)
    /\ r' = NextRead.r /\ err' = NextRead.err /\ prev' = NextRead.b
    /\ UNCHANGED <<input, src, pc, depth, ret, chunks, quoted, arrayVars>>

NextSplit ==
    \/ SplitEntry
    \/ SplitReturn
    \/ SplitParen \/ SplitQuote \/ SplitComma \/ SplitByte \/ SplitEOF

SpecSplit == InitSplit /\ [][NextSplit]_vars

----------------------------------------------------------------------------
(* A call of AppendArrayQuotedBytes                                        *)

BufferAlphabet == {DQuote, LowerA}

QuoteCases ==
    {Input("encode", [b |-> bb, v |-> vv]) :
        bb \in SeqsUpTo(BufferAlphabet, MaxBLen),
        vv \in SeqsUpTo(ValueAlphabet, MaxVLen)}

InitQuote ==
    /\ input \in QuoteCases
    /\ src = <<>>
    /\ pc = "AppendArrayQuotedBytes"
    /\ ret = Pending
    /\ depth = 0 /\ err = NoErr
    /\ del = <<>> /\ typ = "" /\ i = 0 /\ dims = Nil /\ elems = Nil
    /\ r = 0 /\ chunks = Nil /\ elem = Nil /\ prev = NulByte /\ quoted = FALSE

\* the call returns the extended buffer
QuoteCall ==
    /\ pc = "AppendArrayQuotedBytes"
    /\ ret' = [val |-> Mk(AppendArrayQuotedBytes(input.arg.b, input.arg.v)),
               err |-> NoErr]
    /\ pc' = "done"
    /\ UNCHANGED <<input, src, depth, err, arrayVars, splitVars>>

NextQuote == QuoteCall

SpecQuote == InitQuote /\ [][NextQuote]_vars

----------------------------------------------------------------------------
(* Any call of the package                                                 *)

Init == InitArray \/ InitSplit \/ InitQuote

Next == NextArray \/ NextSplit \/ NextQuote

Spec == Init /\ [][Next]_vars

\* which function the behaviour is a call of
ArrayCall == input.kind \in {"bytes", "quoted", "rect", "rows", "tokens"}
SplitCall == input.kind \in {"composite", "fields", "trailing"}
QuoteCallOf == input.kind = "encode"

----------------------------------------------------------------------------
(* Properties of the array parser                                          *)

\* parseArray has returned (to ScanLinearArray, which may have returned too)
Returned == pc \in {"returned", "done"}

\* C1: round trip: parseArray of '{' AppendArrayQuotedBytes(empty, v) '}' with
\* delimiter ',' returns without error, with dims = [1] and the single
\* non-NULL element v.
C1_RoundTrip ==
    input.kind = "quoted" =>
        /\ pc # "panic"
        /\ Returned =>
              /\ err = NoErr
              /\ dims = Mk(<<1>>)
              /\ elems = Mk(<<Mk(input.arg)>>)

C1_Witness ==
    /\ input.kind = "quoted"
    /\ pc = "done"
    /\ \E k \in 1..Len(input.arg) : input.arg[k] = DQuote
    /\ \E k \in 1..Len(input.arg) : input.arg[k] = Backslash
    /\ elems = Mk(<<Mk(input.arg)>>)

\* the leaves of a generated rectangular array, in row-major order
ExpectedLeaves(shape) == [m \in 1..Product(shape) |-> Mk(Leaf(m - 1))]

\* C2 as stated: every well-formed rectangular literal with level sizes
\* d1..dn parses to dims = [d1..dn] and its d1*...*dn leaves in row-major order.
C2_Rectangular_AsStated ==
    input.kind = "rect" =>
        /\ pc # "panic"
        /\ Returned =>
              /\ err = NoErr
              /\ dims = Mk(input.arg.shape)
              /\ elems = Mk(ExpectedLeaves(input.arg.shape))

\* C2 amended: the same for literals all of whose level sizes are at least 1;
\* the empty literal '{}' parses to no dims and no elements.
C2_Rectangular ==
    input.kind = "rect" =>
        /\ (\A k \in 1..Len(input.arg.shape) : input.arg.shape[k] >= 1) =>
              /\ pc # "panic"
              /\ Returned =>
                    /\ err = NoErr
                    /\ dims = Mk(input.arg.shape)
                    /\ GoLen(dims) = Len(input.arg.shape)
                    /\ elems = Mk(ExpectedLeaves(input.arg.shape))
                    /\ GoLen(elems) = Product(input.arg.shape)
        /\ (input.arg.shape = <<0>> /\ Returned) =>
              err = NoErr /\ dims = Nil /\ elems = Mk(<<>>)

C2_Witness ==
    /\ input.kind = "rect"
    /\ input.arg.shape = <<2, 2, 2>>
    /\ pc = "done"
    /\ err = NoErr
    /\ dims = Mk(<<2, 2, 2>>)
    /\ GoLen(elems) = 8

\* C3: a literal with sibling sub-arrays of different lengths is never
\* accepted: parseArray returns the matching-dimensions error.
C3_RaggedRejected ==
    ( /\ input.kind = "rows"
      /\ \E j, k \in 1..Len(input.arg) : input.arg[j] # input.arg[k] ) =>
        /\ pc # "panic"
        /\ Returned => err = Mismatch

\* C4: parseArray always returns, and whenever it is about to index
\* dims[depth-1] the index is inside dims.
C4_NoIndexFault ==
    /\ pc # "panic"
    /\ (pc = "Element" /\ ~AtEnd /\ Cur = LBrace) => InRange(depth + 1)
    /\ (pc = "Delim" /\ ~AtEnd /\ (HasPrefix(src, i, del) \/ Cur = RBrace)) =>
          InRange(depth)

\* C6: in a successful result an element is NULL exactly when it was written
\* unquoted as the four bytes NULL; every other element is the byte string
\* it was written as.
C6_NullSentinel ==
    (input.kind = "tokens" /\ Returned /\ err = NoErr) =>
        /\ GoLen(elems) = Len(input.arg)
        /\ \A k \in 1..Len(input.arg) :
              /\ elems.data[k].nil <=>
                    (~input.arg[k].quoted /\ input.arg[k].text = NULLBytes)
              /\ ~elems.data[k].nil => elems.data[k] = Mk(input.arg[k].value)

C6_Witness ==
    /\ input.kind = "tokens"
    /\ pc = "done" /\ err = NoErr
    /\ \E j, k, m \in 1..Len(input.arg) :
          /\ input.arg[j] = Tok(FALSE, NULLBytes, NULLBytes) /\ elems.data[j] = Nil
          /\ input.arg[k] = Tok(TRUE, NULLBytes, NULLBytes)
          /\ elems.data[k] = Mk(NULLBytes)
          /\ input.arg[m] = Tok(TRUE, <<>>, <<>>) /\ elems.data[m] = Mk(<<>>)

C10_Linear ==
    pc = "done" =>
        /\ ret.err # NoErr <=> (err # NoErr \/ GoLen(dims) > 1)
        /\ ret.err # NoErr => ret.val = Nil
        /\ ret.err = NoErr => ret.val = elems /\ ret.err = err
        /\ src = <<LBrace, RBrace>> => ret = [val |-> Mk(<<>>), err |-> NoErr]

C10_Witness ==
    /\ pc = "done"
    /\ err = NoErr /\ GoLen(dims) = 2 /\ GoLen(elems) = 4
    /\ ret = [val |-> Nil, err |-> CannotConvert(<<2, 2>>, typ)]

----------------------------------------------------------------------------
(* Properties of the composite splitter                                    *)

\* C5: SplitBytes returns on every input: a read that meets the end of the
\* input ends the scan, so the call never goes on after r.Next() returned
\* io.EOF.
C5_EndOfInputEndsScan == err = EOF => pc = "done"

Values(toks) == [k \in 1..Len(toks) |-> toks[k].value]
Data(sl) == [k \in 1..GoLen(sl) |-> sl.data[k].data]

\* C7: a literal '(' f1 ',' ... ',' fn ')' whose fields are unquoted runs or
\* quoted regions (with ',' and ')' inside the quotes) is split into exactly
\* its n fields in order, n being 1 plus the number of ',' outside quotes; the
\* ',' and ')' inside quotes are field content, the enclosing '"' are not, and
\* the scan ends at the closing ')' without reading past the input.
C7_Fields ==
    (input.kind = "fields" /\ \A k \in 1..Len(input.arg) : input.arg[k] \in PlainToks) =>
        /\ err # EOF
        /\ pc # "panic"
        /\ pc = "done" =>
              /\ ret.err = NoErr
              /\ GoLen(ret.val) = Len(input.arg)
              /\ Data(ret.val) = Values(input.arg)

C7_Witness ==
    /\ input.kind = "fields"
    /\ input.arg = << Tok(FALSE, <<LowerA>>, <<LowerA>>),
                      Tok(TRUE, <<LowerA, Comma, LowerB>>, <<LowerA, Comma, LowerB>>),
                      Tok(TRUE, <<RParen>>, <<RParen>>) >>
    /\ pc = "done"
    /\ Data(ret.val) = << <<LowerA>>, <<LowerA, Comma, LowerB>>, <<RParen>> >>

\* C8: inside a quoted region a backslash followed by a byte x contributes
\* only x to the field: '("a\"b")' and '("a\b")' split into a"b and ab.
C8_BackslashRemoved ==
    ( /\ input.kind = "fields"
      /\ \A k \in 1..Len(input.arg) :
            input.arg[k] \in PlainToks \cup (EscapeToks \ {DoubledTok})
      /\ pc = "done" ) =>
        /\ ret.err = NoErr
        /\ Data(ret.val) = Values(input.arg)

----------------------------------------------------------------------------
(* Further properties of the array parser, the encoder and the entry checks *)

\* C11: whenever parseArray returns without error the number of elements is
\* divisible by every entry of dims; a result whose element count some entry
\* does not divide carries an error.
C11_Divisible ==
    (ArrayCall /\ Returned) =>
        /\ err = NoErr =>
              \A k \in 1..GoLen(dims) :
                  dims.data[k] # 0 /\ GoLen(elems) % dims.data[k] = 0
        /\ (\E k \in 1..GoLen(dims) :
                dims.data[k] # 0 /\ GoLen(elems) % dims.data[k] # 0) =>
              err \in {Mismatch, Expected(RBrace, Len(src))}

C11_Witness ==
    /\ input = Input("rows", <<1, 3>>)
    /\ pc = "done"
    /\ dims = Mk(<<2, 3>>) /\ GoLen(elems) = 4
    /\ err = Mismatch

\* every '"' and '\' of v preceded by one '\', every other byte as it is
RECURSIVE Escaped(_)
Escaped(vv) ==
    IF vv = <<>> THEN <<>>
    ELSE (IF Head(vv) \in {DQuote, Backslash}
          THEN <<Backslash, Head(vv)>> ELSE <<Head(vv)>>) \o Escaped(Tail(vv))

Specials(vv) == Cardinality({k \in 1..Len(vv) : vv[k] \in {DQuote, Backslash}})

\* C12: AppendArrayQuotedBytes(b, v) returns b, then '"', then the bytes of v
\* with each '"' and '\' preceded by one inserted '\', then '"'; its length is
\* len(b) + len(v) + 2 + the number of '"' and '\' in v; it never fails.
C12_Quoted ==
    (QuoteCallOf /\ pc = "done") =>
        /\ ret.err = NoErr
        /\ ret.val = Mk(input.arg.b \o <<DQuote>> \o Escaped(input.arg.v) \o <<DQuote>>)
        /\ GoLen(ret.val) =
              Len(input.arg.b) + Len(input.arg.v) + 2 + Specials(input.arg.v)

C12_Witness ==
    /\ QuoteCallOf /\ pc = "done"
    /\ input.arg.b = <<LowerA, DQuote>>
    /\ input.arg.v = <<LowerA, DQuote, Backslash>>
    /\ ret.val.data = <<LowerA, DQuote, DQuote, LowerA, Backslash, DQuote,
                        Backslash, Backslash, DQuote>>

\* C13: parseArray on an input that is empty or does not begin with '{'
\* returns "expected '{' at offset 0" with no dims and no elements, SplitBytes
\* on an input that is empty or does not begin with '(' returns "expected '('
\* at offset 0" with no fields; neither looks at a byte after the first.
C13_OpeningBracket ==
    /\ (ArrayCall /\ pc # "ScanLinearArray" /\ (Len(src) < 1 \/ src[1] # LBrace)) =>
          /\ Returned
          /\ err = Expected(LBrace, 0) /\ dims = Nil /\ elems = Nil
          /\ i = 0 /\ depth = 0
    /\ (SplitCall /\ pc # "SplitBytes" /\ (Len(src) < 1 \/ src[1] # LParen)) =>
          /\ pc = "done"
          /\ ret = [val |-> Nil, err |-> Expected(LParen, 0)]
          /\ r = 0 /\ depth = 0 /\ chunks = Nil /\ elem = Nil

C13_Witness ==
    /\ SplitCall /\ pc = "done"
    /\ src = <<LowerA, Comma, LowerA, RParen>>
    /\ ret = [val |-> Nil, err |-> Expected(LParen, 0)]

\* the Element phase is at a delimiter or a '}' with no byte of an element read
EmptySpan ==
    /\ pc = "Element" /\ ~AtEnd
    /\ Cur \notin {LBrace, DQuote}
    /\ (HasPrefix(src, i, del) \/ Cur = RBrace)

\* the number of leading '{' of s
RECURSIVE LeadingRun(_)
LeadingRun(s) ==
    IF s # <<>> /\ Head(s) = LBrace THEN 1 + LeadingRun(Tail(s)) ELSE 0

\* n '{' followed by n '}'
EmptyLiteral(s) ==
    LET n == LeadingRun(s) IN
    Len(s) = 2 * n /\ \A k \in (n + 1)..Len(s) : s[k] = RBrace

\* C14: when the Element phase meets the delimiter or '}' with no byte of an
\* element consumed, parseArray returns "unexpected <that byte> at <its
\* offset>" with no dims and no elements; a successful result without elements
\* comes only from a '}' directly after the leading run of '{'.
C14_EmptyElement ==
    [][ /\ (ArrayCall /\ EmptySpan) =>
              /\ pc' = "returned"
              /\ err' = Unexpected(Cur, i)
              /\ dims' = Nil /\ elems' = Nil
        /\ (ArrayCall /\ pc' = "returned" /\ err' = NoErr /\ GoLen(elems') = 0) =>
              dims' = Nil /\ EmptyLiteral(src) ]_vars

C14_Witness ==
    /\ src = <<LBrace, LowerA, Comma, RBrace>> /\ del = <<Comma>>
    /\ pc = "done"
    /\ err = Unexpected(RBrace, 3)
    /\ dims = Nil /\ elems = Nil

Phases == <<"Open", "Element", "Delim", "Close">>
Rank(p) == CHOOSE k \in 1..Len(Phases) : Phases[k] = p

\* C16: when the end of the input is reached with depth > 0, in whatever
\* phase, parseArray falls through to the balance check and returns
\* "expected '}'" at the end offset; the rectangularity check is not made.
C16_Truncated ==
    [][ ( /\ ArrayCall
          /\ pc \in {"Open", "Element", "Delim", "Close"}
          /\ AtEnd /\ depth > 0 ) =>
            IF pc = "Close"
            THEN /\ pc' = "returned"
                 /\ err' = Expected(RBrace, Len(src))
                 /\ i' = i
            ELSE /\ pc' = Phases[Rank(pc) + 1]
                 /\ i' = i /\ depth' = depth /\ err' = NoErr ]_vars

C16_Witness ==
    /\ src = <<LBrace, LBrace, LowerA, RBrace>> /\ del = <<Comma>>
    /\ pc = "done"
    /\ err = Expected(RBrace, 4)
    /\ dims = Mk(<<0, 1>>)

\* C19: parseArray ends on every input and delimiter: the scan offset never
\* goes back, an element recorded by the Element phase consumes at least one
\* byte, and the jump back to Element adds the length of the delimiter, so
\* that i grows between two visits of Element; and the call returns (or stops
\* in a run-time panic).
C19_Progress ==
    /\ [][ ArrayCall =>
             /\ i' >= i
             /\ (pc = "Element" /\ pc' = "Delim" /\ ~AtEnd) => i' > i
             /\ (pc = "Delim" /\ pc' = "Element") => i' = i + Len(del) ]_vars
    /\ <>(pc \in {"done", "panic"})

C19_Witness ==
    /\ input.kind = "bytes"
    /\ src = <<LBrace, DQuote, DQuote, RBrace>> /\ del = <<>>
    /\ pc = "done"
    /\ err = Unexpected(RBrace, 3)

\* the first byte after the leading run of '{' is '}'
EmptyPath(s) ==
    LET n == LeadingRun(s) IN n < Len(s) /\ s[n + 1] = RBrace

\* C20: when parseArray reaches the rectangularity check (end of input, depth
\* 0, no error) every entry of dims is at least 1, and dims is empty exactly
\* when the literal took the empty-array path.
C20_DimsPositive ==
    (ArrayCall /\ pc = "Close" /\ AtEnd /\ depth = 0) =>
        /\ err = NoErr
        /\ \A k \in 1..GoLen(dims) : dims.data[k] >= 1
        /\ GoLen(dims) = 0 <=> EmptyPath(src)

C20_Witness ==
    /\ input.kind = "rect"
    /\ pc = "Close" /\ AtEnd /\ depth = 0
    /\ dims = Mk(<<2, 1, 2>>)

----------------------------------------------------------------------------
(* Further properties of the composite splitter                            *)

\* the iteration about to run reads a '"'
QuoteRead ==
    /\ SplitCall /\ pc = "scan" /\ depth # 0
    /\ NextRead.err = NoErr /\ NextRead.b = DQuote

\* the byte after the one about to be read is a '"'
QuoteFollows == r + 1 < Len(Rest) /\ Rest[r + 2] = DQuote

\* C15: a '"' immediately followed by another '"' appends one '"', consumes
\* both and leaves the quoted flag, whatever the flag and the previous byte;
\* a single '"' toggles the flag and appends nothing when the previous byte is
\* not a backslash, and is appended without a toggle when it is.
C15_QuoteCase ==
    [][ QuoteRead =>
          /\ chunks' = chunks /\ depth' = depth /\ prev' = DQuote
          /\ IF QuoteFollows
             THEN elem' = GoAppend(elem, DQuote) /\ r' = r + 2 /\ quoted' = quoted
             ELSE IF prev # Backslash
             THEN elem' = elem /\ quoted' = ~quoted
             ELSE elem' = GoAppend(elem, DQuote) /\ quoted' = quoted ]_vars

C15_Witness ==
    /\ input = Input("fields", <<DoubledTok>>)
    /\ pc = "done"
    /\ Data(ret.val) = << <<LowerA, DQuote, LowerB>> >>

\* C17: depth is 1 during the scan and 0 after it, '(' leaves it alone, the
\* first ')' read while not quoted ends the scan, and bytes after that ')' do
\* not change the result: a literal p followed by any bytes splits into the
\* fields of p, with the scanner left just after the ')' of p.
C17_StopsAtParen ==
    /\ [](SplitCall =>
            /\ depth \in {0, 1}
            /\ pc = "scan" /\ depth = 0 => r >= 1 /\ Rest[r] = RParen
            /\ (input.kind = "trailing" /\ pc = "done") =>
                  /\ ret.err = NoErr
                  /\ Data(ret.val) = Values(input.arg.toks)
                  /\ r = Len(FieldsLit(input.arg.toks)) - 1)
    /\ [][ (SplitCall /\ pc = "scan") =>
             /\ depth = 0 => pc' = "done" /\ r' = r /\ ret' = [val |-> chunks, err |-> NoErr]
             /\ (depth # 0 /\ NextRead.err = NoErr /\ NextRead.b = RParen /\ ~quoted) =>
                   depth' = 0 /\ chunks' = GoAppend(chunks, elem)
             /\ (depth # 0 /\ NextRead.err = NoErr /\ NextRead.b = LParen) =>
                   depth' = depth ]_vars

C17_Witness ==
    /\ input.kind = "trailing"
    /\ input.arg.toks = << Tok(FALSE, <<LowerB, LParen>>, <<LowerB, LParen>>),
                           Tok(TRUE, <<RParen>>, <<RParen>>) >>
    /\ input.arg.tail = <<Comma, RParen>>
    /\ pc = "done"
    /\ Data(ret.val) = << <<LowerB, LParen>>, <<RParen>> >>

\* C18: Peek leaves the scan position where it was: after an iteration that
\* read a '"' and peeked, the scanner stands after that '"' (or after the
\* second '"' of a pair), so no byte is delivered twice.
C18_PeekUncommitted ==
    [][ QuoteRead => r' >= r + 1 ]_vars

====
